---- MODULE Spec2Model ----
(***************************************************************************)
(* Model of docker/test-metrics-exporter/exporter.py: an HTTP server that  *)
(* on every GET /metrics scans a results directory, folds the Allure       *)
(* result files into a statistics dictionary and renders it.               *)
(*                                                                         *)
(* Conventions.  A JSON key that may be absent is a tuple of zero or one   *)
(* values (<<>> is "key absent").  A string the code inspects character by *)
(* character (a step name) is a tuple of characters; a label value is the  *)
(* tuple of its dot-separated segments.  A Python number that may become a *)
(* float (a rate) is an exact fraction in lowest terms, so 0 and 0.0 are   *)
(* the same value, as they are to Python's ==.                             *)
(***************************************************************************)
EXTENDS Integers, Sequences, FiniteSets, TLC

VARIABLES dirState, dir, phase, request, response,
          pc, cur, stats, module_stats, result_files, pos, touched

vars == <<dirState, dir, phase, request, response,
          pc, cur, stats, module_stats, result_files, pos, touched>>

\* The largest number of entries the results directory holds.
MaxFiles == 3

\* The number of result file names the test runner writes while the server
\* runs.
MaxNames == 2

----------------------------------------------------------------------------
(* Numbers *)

RECURSIVE Gcd(_, _)
Gcd(a, b) == IF b = 0 THEN a ELSE Gcd(b, a % b)

\* An integer as a number.
Num(n) == [num |-> n, den |-> 1]

\* (a / b) * 100 for integers a >= 0, b > 0: Python's true division.
Percent(a, b) ==
    LET g == Gcd(a * 100, b)
    IN  [num |-> (a * 100) \div g, den |-> b \div g]

----------------------------------------------------------------------------
(* Strings *)

UpperCase == <<"A","B","C","D","E","F","G","H","I","J","K","L","M",
               "N","O","P","Q","R","S","T","U","V","W","X","Y","Z">>
LowerCase == <<"a","b","c","d","e","f","g","h","i","j","k","l","m",
               "n","o","p","q","r","s","t","u","v","w","x","y","z">>

\* str.lower(), character by character.
Lower(s) ==
    [i \in 1..Len(s) |->
        IF \E k \in 1..26 : UpperCase[k] = s[i]
        THEN LowerCase[CHOOSE k \in 1..26 : UpperCase[k] = s[i]]
        ELSE s[i]]

\* sub in s
Contains(s, sub) ==
    \E i \in 0..(Len(s) - Len(sub)) :
        \A j \in 1..Len(sub) : s[i + j] = sub[j]

SelfHealing == <<"s","e","l","f","-","h","e","a","l","i","n","g">>
Healed      == <<"h","e","a","l","e","d">>
AiGenerated == <<"a","i","-","g","e","n","e","r","a","t","e","d">>
Llm         == <<"l","l","m">>

\* dict.get(key, default) on a key that may be absent.
Get(field, default) == IF field = <<>> THEN default ELSE field[1]

----------------------------------------------------------------------------
(* The statistics dictionary *)

EmptyMap == [k \in {} |-> 0]

\* stats as parse_allure_results creates it.
NewStats ==
    [total |-> 0, passed |-> 0, failed |-> 0, skipped |-> 0, broken |-> 0,
     duration_ms |-> 0, flaky_rate |-> Num(0),
     by_category |-> EmptyMap, pass_rate_by_module |-> EmptyMap,
     self_healing_attempts |-> 0, self_healing_success |-> 0,
     ai_data_count |-> 0]

\* module_stats as parse_allure_results creates it.
NewModuleStats == EmptyMap

DefaultCategories ==
    [k \in {<<"smoke">>, <<"regression">>, <<"api">>, <<"ui">>} |-> 0]
DefaultModules == [k \in {"core", "ui", "api"} |-> Num(0)]

\* d[key] += 1, after "if key not in d: d[key] = 0".
Bump(d, key) ==
    [k \in DOMAIN d \cup {key} |->
        IF k = key THEN (IF key \in DOMAIN d THEN d[key] + 1 ELSE 1)
        ELSE d[k]]

----------------------------------------------------------------------------
(* One result file *)

\* The module of a package label: value.split('.')[-2] if '.' in value
\* else value.
ModuleOf(value) ==
    IF Len(value) >= 2 THEN value[Len(value) - 1] ELSE value[1]

\* The module accumulator after one more package label.
CountModuleMutant(ms, module, status) ==
    LET old == IF module \in DOMAIN ms THEN ms[module]
               ELSE [total |-> 0, passed |-> 0]
    IN  [k \in DOMAIN ms \cup {module} |->
            IF k = module
            THEN [total  |-> old.total,
                  passed |-> old.passed + 1]
            ELSE ms[k]]
CountModule(ms, module, status) ==
    LET old == IF module \in DOMAIN ms THEN ms[module]
               ELSE [total |-> 0, passed |-> 0]
    IN  [k \in DOMAIN ms \cup {module} |->
            IF k = module
            THEN [total  |-> old.total + 1,
                  passed |-> old.passed + (IF status = "passed" THEN 1 ELSE 0)]
            ELSE ms[k]]

\* The body of "for label in labels" for one label.  acc holds the
\* category map, the module accumulators and whether an exception that the
\* except clause does not name has been raised.
ApplyLabel(acc, label, status) ==
    IF acc.raised THEN acc
    ELSE IF ~label.obj THEN [acc EXCEPT !.raised = TRUE]
    ELSE LET name  == Get(label.name, "")
             value == Get(label.value, <<"">>)
         IN  [cat |-> IF name \in {"suite", "feature", "epic"}
                      THEN Bump(acc.cat, value) ELSE acc.cat,
              mods |-> IF name = "package"
                       THEN CountModule(acc.mods, ModuleOf(value), status)
                       ELSE acc.mods,
              raised |-> FALSE]

RECURSIVE ApplyLabels(_, _, _)
ApplyLabels(acc, labels, status) ==
    IF labels = <<>> THEN acc
    ELSE ApplyLabels(ApplyLabel(acc, Head(labels), status), Tail(labels), status)

\* Whether a step counts as a self-healing attempt / as AI-generated data.
IsHealingStep(step_name) ==
    Contains(step_name, SelfHealing) \/ Contains(step_name, Healed)
IsAiStep(step_name) ==
    Contains(step_name, AiGenerated) \/ Contains(step_name, Llm)

\* Whether a healing step counts as a success, given the step's status and
\* the status of the record that holds it.
HealingSucceededMutant(step, status) == status = "passed"
HealingSucceeded(step, status) == Get(step.status, "") = "passed"

\* The body of "for step in steps" for one step.
ApplyStep(acc, step, status) ==
    IF acc.raised THEN acc
    ELSE IF ~step.obj THEN [acc EXCEPT !.raised = TRUE]
    ELSE LET step_name == Lower(Get(step.name, <<>>))
             healing   == IsHealingStep(step_name)
         IN  [attempts |-> acc.attempts + (IF healing THEN 1 ELSE 0),
              success  |-> acc.success +
                  (IF healing /\ HealingSucceeded(step, status) THEN 1 ELSE 0),
              ai       |-> acc.ai + (IF IsAiStep(step_name) THEN 1 ELSE 0),
              raised   |-> FALSE]

RECURSIVE ApplySteps(_, _, _)
ApplySteps(acc, steps, status) ==
    IF steps = <<>> THEN acc
    ELSE ApplySteps(ApplyStep(acc, Head(steps), status), Tail(steps), status)

\* The exceptions the except clause names: the file is logged and skipped.
CaughtMutant(kind) == kind \in {"unreadable"}
Caught(kind) == kind \in {"badjson", "unreadable", "missing"}

\* The status counters after one record.
CountStatusMutant(st, status) ==
    IF status \in {"passed", "failed", "skipped"}
    THEN [st EXCEPT ![status] = @ + 1]
    ELSE [st EXCEPT !.broken = @ + 1]
CountStatus(st, status) ==
    IF status \in {"passed", "failed", "skipped", "broken"}
    THEN [st EXCEPT ![status] = @ + 1]
    ELSE st

\* The body of "for file_path in result_files" for one file: the
\* dictionaries after it and how it ended ("ok", "skipped": the except
\* clause ran, "raised": an exception left parse_allure_results).
ProcessFile(st, ms, file) ==
    IF Caught(file.kind)
    THEN [stats |-> st, module_stats |-> ms, outcome |-> "skipped"]
    ELSE
    LET s1 == [st EXCEPT !.total = @ + 1]
    IN  IF file.kind # "object"
        THEN [stats |-> s1, module_stats |-> ms, outcome |-> "raised"]
        ELSE
        LET status == Get(file.status, "unknown")
            s2 == CountStatus(s1, status)
            s3 == [s2 EXCEPT !.duration_ms =
                       @ + (Get(file.stop, 0) - Get(file.start, 0))]
            la == ApplyLabels([cat |-> s3.by_category, mods |-> ms,
                               raised |-> FALSE],
                              Get(file.labels, <<>>), status)
            s4 == [s3 EXCEPT !.by_category = la.cat]
            s5 == IF Get(file.flaky, FALSE)
                  THEN [s4 EXCEPT !.flaky_rate = Num(@.num + 1)] ELSE s4
            sa == ApplySteps([attempts |-> s5.self_healing_attempts,
                              success  |-> s5.self_healing_success,
                              ai       |-> s5.ai_data_count,
                              raised   |-> FALSE],
                             Get(file.steps, <<>>), status)
            s6 == [s5 EXCEPT !.self_healing_attempts = sa.attempts,
                             !.self_healing_success  = sa.success,
                             !.ai_data_count         = sa.ai]
        IN  IF la.raised
            THEN [stats |-> s4, module_stats |-> la.mods, outcome |-> "raised"]
            ELSE IF sa.raised
            THEN [stats |-> s6, module_stats |-> la.mods, outcome |-> "raised"]
            ELSE [stats |-> s6, module_stats |-> la.mods, outcome |-> "ok"]

\* The statistics after the loop: the flaky rate, the rate of every module
\* and the default maps.
DefaultsWhenMutant(m) == TRUE
DefaultsWhen(m) == DOMAIN m = {}

Finalize(st, ms) ==
    LET f1 == IF st.total > 0
              THEN [st EXCEPT !.flaky_rate = Percent(@.num, st.total)]
              ELSE st
        rates == [m \in DOMAIN ms |->
                     IF ms[m].total > 0
                     THEN Percent(ms[m].passed, ms[m].total)
                     ELSE Num(0)]
        f2 == [f1 EXCEPT !.pass_rate_by_module = rates]
        f3 == IF DefaultsWhen(f2.by_category)
              THEN [f2 EXCEPT !.by_category = DefaultCategories] ELSE f2
    IN  IF DefaultsWhen(f3.pass_rate_by_module)
        THEN [f3 EXCEPT !.pass_rate_by_module = DefaultModules] ELSE f3

----------------------------------------------------------------------------
(* Result files and the results directory *)

Label(n, v) == [obj |-> TRUE, name |-> <<n>>, value |-> <<v>>]
Step(n, s)  == [obj |-> TRUE, name |-> <<n>>, status |-> s]
\* A JSON value that is not an object where a label or a step is expected.
NotALabel == [obj |-> FALSE, name |-> <<>>, value |-> <<>>]
NotAStep  == [obj |-> FALSE, name |-> <<>>, status |-> <<>>]

\* A file that holds no JSON object: kind says what reading it does.
\*   "badjson"    json.load raises JSONDecodeError
\*   "unreadable" open raises PermissionError (an IOError)
\*   "missing"    open raises FileNotFoundError (an IOError)
\*   "array"      json.load returns a list, which has no .get
Blank(kind) ==
    [kind |-> kind, status |-> <<>>, start |-> <<>>, stop |-> <<>>,
     labels |-> <<>>, flaky |-> <<>>, steps |-> <<>>]

SelfHealingRetry ==
    <<"S","e","l","f","-","H","e","a","l","i","n","g"," ","r","e","t","r","y">>
HealedByLLM == <<"H","e","a","l","e","d"," ","b","y"," ","L","L","M">>
AIGeneratedUser ==
    <<"A","I","-","G","e","n","e","r","a","t","e","d"," ","u","s","e","r">>
Click == <<"c","l","i","c","k">>

FSmoke ==
    [kind |-> "object", status |-> <<"passed">>,
     start |-> <<1000>>, stop |-> <<1500>>,
     labels |-> << <<Label("suite", <<"smoke">>)>> >>,
     flaky |-> <<FALSE>>, steps |-> <<>>]
FHealed ==
    [kind |-> "object", status |-> <<"failed">>,
     start |-> <<0>>, stop |-> <<20>>,
     labels |-> << <<Label("package", <<"com", "core", "LoginTest">>)>> >>,
     flaky |-> <<>>,
     steps |-> << <<Step(SelfHealingRetry, <<"passed">>),
                    Step(Click, <<"passed">>)>> >>]
FUi ==
    [kind |-> "object", status |-> <<"broken">>,
     start |-> <<>>, stop |-> <<>>,
     labels |-> << <<Label("package", <<"ui">>),
                     Label("feature", <<"login">>)>> >>,
     flaky |-> <<TRUE>>,
     steps |-> << <<Step(HealedByLLM, <<"failed">>)>> >>]
FApi ==
    [kind |-> "object", status |-> <<>>,
     start |-> <<50>>, stop |-> <<20>>,
     labels |-> << <<Label("package", <<"api", "">>),
                     Label("epic", <<"smoke">>),
                     Label("owner", <<"qa">>)>> >>,
     flaky |-> <<>>,
     steps |-> << <<Step(AIGeneratedUser, <<>>)>> >>]
FPassUi ==
    [kind |-> "object", status |-> <<"passed">>,
     start |-> <<10>>, stop |-> <<30>>,
     labels |-> << <<Label("package", <<"app", "ui", "CartTest">>)>> >>,
     flaky |-> <<TRUE>>, steps |-> <<>>]
FBadLabel ==
    [kind |-> "object", status |-> <<"skipped">>,
     start |-> <<>>, stop |-> <<>>,
     labels |-> << <<Label("suite", <<"smoke">>), NotALabel>> >>,
     flaky |-> <<>>, steps |-> <<>>]
FBadStep ==
    [kind |-> "object", status |-> <<"passed">>,
     start |-> <<>>, stop |-> <<>>,
     labels |-> <<>>, flaky |-> <<>>,
     steps |-> << <<Step(HealedByLLM, <<"passed">>), NotAStep>> >>]

ResultSuffix == "-result.json"

\* The files a directory entry is drawn from: its name's suffix and what
\* it holds.
ValidFiles == {FSmoke, FHealed, FUi, FApi, FPassUi}
AllFiles ==
    [suffix : {ResultSuffix},
     file : ValidFiles \cup {FBadLabel, FBadStep, Blank("badjson"),
                             Blank("unreadable"), Blank("array")}]
    \cup {[suffix |-> "-container.json", file |-> FSmoke]}

\* The files written while the server runs.
ChurnFiles ==
    [suffix : {ResultSuffix},
     file : {FSmoke, FHealed, Blank("array")}]

Entry(stem, f) == [path |-> <<stem, f.suffix>>, file |-> f.file]

\* Every directory listing of at most MaxFiles entries drawn from files.
Listings(files) ==
    UNION {
        {[i \in 1..n |-> Entry(i, fs[i])] : fs \in [1..n -> files]}
        : n \in 0..MaxFiles}

\* glob.glob(os.path.join(results_dir, '*-result.json')): the matching
\* paths in directory order, and none when the directory cannot be listed.
GlobMutant(d, ds) == [i \in 1..Len(d) |-> d[i].path]
Glob(d, ds) ==
    IF ds # "ok" THEN <<>>
    ELSE LET match == SelectSeq(d, LAMBDA e : e.path[2] = ResultSuffix)
         IN  [i \in 1..Len(match) |-> match[i].path]

\* open(file_path) and json.load: what the path holds now.
Open(d, path) ==
    IF \E i \in 1..Len(d) : d[i].path = path
    THEN d[CHOOSE i \in 1..Len(d) : d[i].path = path].file
    ELSE Blank("missing")

----------------------------------------------------------------------------
(* The server *)

Clients == {"c1", "c2"}
Methods == {"GET", "POST"}
Paths   == {"/metrics", "/health", "/foo"}

NoRequest  == [method |-> "", path |-> ""]
\* status 0: the connection was closed before any response was written.
NoResponse == [status |-> 0, content_type |-> "", body |-> "", summary |-> <<>>]

\* The methods MetricsHandler defines a do_<METHOD> for; the base class
\* answers every other method with 501 and an error page.
Handled(method) == method = "GET"

\* The dictionaries a call of parse_allure_results starts from: new ones,
\* bound to its local names.
StaleStats == stats
BindStats == NewStats
StaleModuleStats == module_stats
BindModuleStats == NewModuleStats

\* What generate_metrics renders from the statistics.
Metrics(st) ==
    [status |-> 200, content_type |-> "text/plain; charset=utf-8",
     body |-> "metrics", summary |-> <<st>>]

HealthPayload == "{\"status\": \"healthy\"}"

TypeOK ==
    /\ dirState \in {"ok", "missing", "unreadable"}
    /\ phase \in [Clients -> {"idle", "pending", "active", "done"}]
    /\ request \in [Clients -> [method : Methods \cup {""}, path : Paths \cup {""}]]
    /\ pc \in {"idle", "loop", "render", "raised"}
    /\ cur \in Clients \cup {"none"}
    /\ pos \in 0..Len(result_files)
    /\ touched \in [Clients -> BOOLEAN]

Server0 ==
    /\ phase = [c \in Clients |-> "idle"]
    /\ request = [c \in Clients |-> NoRequest]
    /\ response = [c \in Clients |-> NoResponse]
    /\ pc = "idle"
    /\ cur = "none"
    /\ stats = NewStats
    /\ module_stats = NewModuleStats
    /\ result_files = <<>>
    /\ pos = 0
    /\ touched = [c \in Clients |-> FALSE]

\* A client sends a request; it waits in the listen queue.
Send(c, m, p) ==
    /\ phase[c] = "idle"
    /\ phase' = [phase EXCEPT ![c] = "pending"]
    /\ request' = [request EXCEPT ![c] = [method |-> m, path |-> p]]
    /\ UNCHANGED <<dirState, dir, response, pc, cur, stats, module_stats,
                   result_files, pos, touched>>

\* The client reads the response and closes the connection.
Receive(c) ==
    /\ phase[c] = "done"
    /\ phase' = [phase EXCEPT ![c] = "idle"]
    /\ request' = [request EXCEPT ![c] = NoRequest]
    /\ response' = [response EXCEPT ![c] = NoResponse]
    /\ touched' = [touched EXCEPT ![c] = FALSE]
    /\ UNCHANGED <<dirState, dir, pc, cur, stats, module_stats,
                   result_files, pos>>

\* The handler answers client c and returns; serve_forever takes the next
\* request.
Answer(c, r) ==
    /\ phase' = [phase EXCEPT ![c] = "done"]
    /\ response' = [response EXCEPT ![c] = r]
    /\ pc' = "idle"
    /\ cur' = "none"
    /\ result_files' = <<>>
    /\ pos' = 0

\* serve_forever handles one request at a time: the next one is taken
\* when no handler is running.
Idle == pc = "idle"

\* A method without a do_<METHOD>: the base class answers 501.
Unsupported(c) ==
    /\ Idle /\ phase[c] = "pending"
    /\ ~Handled(request[c].method)
    /\ Answer(c, [status |-> 501, content_type |-> "text/html;charset=utf-8",
                  body |-> "error page", summary |-> <<>>])
    /\ UNCHANGED <<dirState, dir, request, stats, module_stats, touched>>

\* do_GET, path /metrics: generate_metrics calls parse_allure_results,
\* which creates its dictionaries and lists the directory.
GetMetrics(c) ==
    /\ Idle /\ phase[c] = "pending"
    /\ Handled(request[c].method)
    /\ request[c].path = "/metrics"
    /\ phase' = [phase EXCEPT ![c] = "active"]
    /\ cur' = c
    /\ pc' = "loop"
    /\ stats' = BindStats
    /\ module_stats' = BindModuleStats
    /\ result_files' = Glob(dir, dirState)
    /\ pos' = 0
    /\ touched' = [touched EXCEPT ![c] = FALSE]
    /\ UNCHANGED <<dirState, dir, request, response>>

\* do_GET, path /health.
GetHealth(c) ==
    /\ Idle /\ phase[c] = "pending"
    /\ Handled(request[c].method)
    /\ request[c].path = "/health"
    /\ Answer(c, [status |-> 200, content_type |-> "application/json",
                  body |-> HealthPayload, summary |-> <<>>])
    /\ UNCHANGED <<dirState, dir, request, stats, module_stats, touched>>

\* do_GET, any other path.
GetOther(c) ==
    /\ Idle /\ phase[c] = "pending"
    /\ Handled(request[c].method)
    /\ request[c].path \notin {"/metrics", "/health"}
    /\ Answer(c, [status |-> 404, content_type |-> "", body |-> "",
                  summary |-> <<>>])
    /\ UNCHANGED <<dirState, dir, request, stats, module_stats, touched>>

\* One iteration of "for file_path in result_files".
ParseFile ==
    /\ pc = "loop" /\ pos < Len(result_files)
    /\ LET r == ProcessFile(stats, module_stats,
                            Open(dir, result_files[pos + 1]))
       IN  /\ stats' = r.stats
           /\ module_stats' = r.module_stats
           /\ pc' = IF r.outcome = "raised" THEN "raised" ELSE "loop"
    /\ pos' = pos + 1
    /\ UNCHANGED <<dirState, dir, phase, request, response, cur,
                   result_files, touched>>

\* The loop is over: the rates and the default maps.
EndOfLoop ==
    /\ pc = "loop" /\ pos = Len(result_files)
    /\ stats' = Finalize(stats, module_stats)
    /\ pc' = "render"
    /\ UNCHANGED <<dirState, dir, phase, request, response, cur,
                   module_stats, result_files, pos, touched>>

\* generate_metrics renders the statistics and do_GET sends them.
SendMetrics ==
    /\ pc = "render"
    /\ Answer(cur, Metrics(stats))
    /\ UNCHANGED <<dirState, dir, request, stats, module_stats, touched>>

\* An exception left do_GET: the server logs it and closes the connection
\* without a response.
HandleError ==
    /\ pc = "raised"
    /\ Answer(cur, NoResponse)
    /\ UNCHANGED <<dirState, dir, request, stats, module_stats, touched>>

Handler(c) ==
    \/ Unsupported(c)
    \/ GetMetrics(c)
    \/ GetHealth(c)
    \/ GetOther(c)

Pass ==
    \/ ParseFile
    \/ EndOfLoop
    \/ SendMetrics
    \/ HandleError

----------------------------------------------------------------------------
(* A fixed results directory, one client *)

Init ==
    /\ dirState \in {"ok", "missing", "unreadable"}
    /\ dir \in Listings(AllFiles)
    /\ dirState = "missing" => dir = <<>>
    /\ Server0

Next ==
    \/ \E m \in Methods, p \in Paths : Send("c1", m, p)
    \/ Receive("c1")
    \/ Handler("c1")
    \/ Pass

Spec == Init /\ [][Next]_vars

----------------------------------------------------------------------------
(* A results directory that changes while two clients scrape *)

\* The clients whose pass or response predates a change of the directory.
Touch == [c \in Clients |-> phase[c] \in {"active", "done"}]

\* The directory that holds entry e under its path and every other entry
\* of d, in the order of the stems.
WithEntry(d, e) ==
    LET others == {d[i] : i \in {k \in 1..Len(d) : d[k].path # e.path}}
        all    == others \cup {e}
        Rank(x) == Cardinality({y \in all : y.path[1] <= x.path[1]})
    IN  [i \in 1..Cardinality(all) |-> CHOOSE x \in all : Rank(x) = i]

\* The test runner writes a result file (a new one, or over an old one).
WriteFile(stem, f) ==
    /\ dir' = WithEntry(dir, Entry(stem, f))
    /\ dir' # dir
    /\ touched' = Touch
    /\ UNCHANGED <<dirState, phase, request, response, pc, cur, stats,
                   module_stats, result_files, pos>>

\* A result file is deleted.
DeleteFile(i) ==
    /\ i \in 1..Len(dir)
    /\ dir' = [k \in 1..(Len(dir) - 1) |-> IF k < i THEN dir[k] ELSE dir[k + 1]]
    /\ touched' = Touch
    /\ UNCHANGED <<dirState, phase, request, response, pc, cur, stats,
                   module_stats, result_files, pos>>

InitChurn ==
    /\ dirState = "ok"
    /\ dir = <<>>
    /\ Server0

NextChurn ==
    \/ \E c \in Clients : Send(c, "GET", "/metrics")
    \/ \E c \in Clients : Receive(c)
    \/ \E c \in Clients : GetMetrics(c)
    \/ Pass
    \/ \E stem \in 1..MaxNames, f \in ChurnFiles : WriteFile(stem, f)
    \/ \E i \in 1..MaxNames : DeleteFile(i)

SpecChurn == InitChurn /\ [][NextChurn]_vars

----------------------------------------------------------------------------
(* What the properties speak of *)

\* The files the running pass has read so far, as they are in the
\* directory.
Read(i) == Open(dir, result_files[i])
Prefix == 1..pos

InPass == pc \in {"loop", "render", "raised"}

\* A JSON object of the Result Record shape.
WellFormed(f) ==
    /\ f.kind = "object"
    /\ \A i \in 1..Len(Get(f.labels, <<>>)) : Get(f.labels, <<>>)[i].obj
    /\ \A i \in 1..Len(Get(f.steps, <<>>)) : Get(f.steps, <<>>)[i].obj

\* The file was counted in total: it was opened and parsed.
Counted(f) == f.kind \in {"object", "array"}

KnownStatus == {"passed", "failed", "skipped", "broken"}

StatusSum(st) == st.passed + st.failed + st.skipped + st.broken

\* The labels of a well-formed record with a name in names.
LabelsNamed(f, names) ==
    {i \in 1..Len(Get(f.labels, <<>>)) :
        Get(Get(f.labels, <<>>)[i].name, "") \in names}

CategoryNames == {"suite", "feature", "epic"}

\* The Summary of a pass that lists no file.
DefaultSummary ==
    [total |-> 0, passed |-> 0, failed |-> 0, skipped |-> 0, broken |-> 0,
     duration_ms |-> 0, flaky_rate |-> Num(0),
     by_category |-> [k \in {<<"smoke">>, <<"regression">>, <<"api">>,
                             <<"ui">>} |-> 0],
     pass_rate_by_module |-> [k \in {"core", "ui", "api"} |-> Num(0)],
     self_healing_attempts |-> 0, self_healing_success |-> 0,
     ai_data_count |-> 0]

\* A pass running alone, from new dictionaries, over the given paths of
\* directory d: the dictionaries when the loop ends or an exception leaves
\* it.
RECURSIVE FoldFiles(_, _, _, _)
FoldFiles(st, ms, d, paths) ==
    IF paths = <<>> THEN [stats |-> st, module_stats |-> ms, outcome |-> "ok"]
    ELSE LET r == ProcessFile(st, ms, Open(d, Head(paths)))
         IN  IF r.outcome = "raised" THEN r
             ELSE FoldFiles(r.stats, r.module_stats, d, Tail(paths))

Alone(d, paths) == FoldFiles(NewStats, NewModuleStats, d, paths)

IsMetricsRequest(c) == request[c] = [method |-> "GET", path |-> "/metrics"]

----------------------------------------------------------------------------
(* Properties *)

\* C1: over a directory of valid result files and syntactically invalid
\* JSON files the pass never aborts, total is the number of valid files
\* read so far (K when the pass returns), and while only invalid files
\* have been read no counter has moved.
C1_TotalIsValidCount ==
    (InPass /\ \A i \in 1..Len(result_files) :
                   WellFormed(Read(i)) \/ Read(i).kind = "badjson")
    => /\ pc # "raised"
       /\ stats.total = Cardinality({i \in Prefix : WellFormed(Read(i))})
       /\ (pc = "loop" /\ \A i \in Prefix : Read(i).kind = "badjson")
              => (stats = NewStats /\ module_stats = NewModuleStats)
       /\ (pc = "render" /\ dirState = "ok") =>
              stats.total = Cardinality({i \in 1..Len(dir) :
                                /\ dir[i].path[2] = ResultSuffix
                                /\ WellFormed(dir[i].file)})

C1_Witness ==
    /\ pc = "render"
    /\ stats.total = 2
    /\ Len(result_files) = 3
    /\ \E i \in 1..3 : Read(i).kind = "badjson"

\* C2: every malformed result file is skipped, the pass never aborts and
\* GET /metrics is answered with status 200.
C2_MalformedFilesRecovered ==
    /\ pc # "raised"
    /\ \A c \in Clients :
           (phase[c] = "done" /\ IsMetricsRequest(c)) => response[c].status = 200

\* C3: with an empty, missing or unreadable results directory the pass
\* lists no file and returns the all-default Summary, and GET /metrics is
\* answered with status 200 and that Summary.
C3_EmptyDirectoryDefaults ==
    (dirState # "ok" \/ dir = <<>>)
    => /\ InPass => (result_files = <<>> /\ pc # "raised")
       /\ pc = "render" => stats = DefaultSummary
       /\ \A c \in Clients :
              (phase[c] = "done" /\ IsMetricsRequest(c))
              => /\ response[c].status = 200
                 /\ response[c].summary = <<DefaultSummary>>

C3_Witness ==
    /\ dirState = "unreadable"
    /\ Len(dir) = 2
    /\ phase["c1"] = "done"
    /\ IsMetricsRequest("c1")
    /\ response["c1"].status = 200

\* C4: every request other than GET /metrics and GET /health is answered
\* with status 404 and an empty body.
C4_EverythingElseIs404 ==
    \A c \in Clients :
        (/\ phase[c] = "done"
         /\ ~(request[c].method = "GET"
              /\ request[c].path \in {"/metrics", "/health"}))
        => (response[c].status = 404 /\ response[c].body = "")

\* C5: during and after the loop the five counts are >= 0, total is the
\* number of records counted so far, passed + failed + skipped + broken
\* <= total, and the two are equal exactly when every counted record has
\* a status among passed, failed, skipped and broken.
C5_StatusSumBelowTotal ==
    InPass
    => /\ \A k \in {"total", "passed", "failed", "skipped", "broken"} :
              stats[k] >= 0
       /\ stats.total = Cardinality({i \in Prefix : Counted(Read(i))})
       /\ StatusSum(stats) <= stats.total
       /\ (StatusSum(stats) = stats.total)
              <=> \A i \in Prefix :
                      Counted(Read(i))
                      => /\ Read(i).kind = "object"
                         /\ Get(Read(i).status, "unknown") \in KnownStatus

C5_Witness ==
    /\ pc = "render"
    /\ stats.total = 3
    /\ StatusSum(stats) = 2

\* The package labels and the category labels of the records counted so
\* far, as (file, label) pairs.
LabelsSoFar(names) ==
    UNION {{<<i, j>> : j \in LabelsNamed(Read(i), names)} :
              i \in {k \in Prefix : WellFormed(Read(k))}}

\* The sum of one field of the accumulators of the modules in S.
RECURSIVE SumField(_, _, _)
SumField(ms, S, field) ==
    IF S = {} THEN 0
    ELSE LET m == CHOOSE x \in S : TRUE
         IN  ms[m][field] + SumField(ms, S \ {m}, field)

ValueOf(ij) == Get(Get(Read(ij[1]).labels, <<>>)[ij[2]].value, <<"">>)

\* C6: the Summary a scrape returns is the one a first-ever pass over the
\* directory as it is would return, whatever was scraped or changed
\* before; so two scrapes of an unchanged directory return the same
\* Summary.  (touched[c]: the directory changed after c's pass began.)
C6_SummaryIsFunctionOfDirectory ==
    \A c \in Clients :
        (phase[c] = "done" /\ IsMetricsRequest(c) /\ ~touched[c])
        => LET a == Alone(dir, Glob(dir, dirState))
           IN  IF a.outcome = "raised"
               THEN response[c] = NoResponse
               ELSE response[c] = Metrics(Finalize(a.stats, a.module_stats))

C6_Witness ==
    /\ \A c \in Clients :
           /\ phase[c] = "done"
           /\ ~touched[c]
           /\ response[c].status = 200
    /\ response["c1"] = response["c2"]
    /\ response["c1"].summary[1].total = 2
    /\ response["c1"].summary[1].failed = 1

C8_ModuleRatesDefined ==
    InPass
    => /\ \A m \in DOMAIN module_stats :
              /\ 0 <= module_stats[m].passed
              /\ module_stats[m].passed <= module_stats[m].total
              /\ module_stats[m].total >= 1
       /\ pc # "raised" =>
              /\ SumField(module_stats, DOMAIN module_stats, "total") =
                     Cardinality(LabelsSoFar({"package"}))
              /\ SumField(module_stats, DOMAIN module_stats, "passed") =
                     Cardinality({ij \in LabelsSoFar({"package"}) :
                         Get(Read(ij[1]).status, "unknown") = "passed"})
       /\ pc = "render" =>
              \A m \in DOMAIN stats.pass_rate_by_module :
                  LET r == stats.pass_rate_by_module[m]
                  IN  /\ r.den > 0
                      /\ 0 <= r.num
                      /\ r.num <= 100 * r.den
                      /\ m \in DOMAIN module_stats =>
                             r.num * module_stats[m].total =
                                 100 * module_stats[m].passed * r.den
C8_Witness ==
    /\ pc = "render"
    /\ DOMAIN module_stats = {"ui", "core"}
    /\ stats.pass_rate_by_module["ui"] = [num |-> 50, den |-> 1]
    /\ stats.pass_rate_by_module["core"] = Num(0)

\* The steps of the records counted so far, as (file, step) pairs.
StepsSoFar ==
    UNION {{<<i, j>> : j \in 1..Len(Get(Read(i).steps, <<>>))} :
              i \in {k \in Prefix : WellFormed(Read(k))}}

StepOf(ij) == Get(Read(ij[1]).steps, <<>>)[ij[2]]

\* The step names of the result files whose lower-cased text contains
\* 'self-healing' or 'healed', and those that contain 'ai-generated' or
\* 'llm'.
HealingNames == {SelfHealingRetry, HealedByLLM}
AiNames == {HealedByLLM, AIGeneratedUser}

\* C9: the attempt counter is the number of steps named as self-healing,
\* the success counter the number of those whose own status is passed
\* (whatever the status of their record), so successes <= attempts; the
\* AI-data counter is the number of steps named as AI-generated, counted
\* independently of the other two.
C9_SelfHealingPerStep ==
    pc \in {"loop", "render"}
    => /\ stats.self_healing_attempts =
              Cardinality({ij \in StepsSoFar :
                              Get(StepOf(ij).name, <<>>) \in HealingNames})
       /\ stats.self_healing_success =
              Cardinality({ij \in StepsSoFar :
                              /\ Get(StepOf(ij).name, <<>>) \in HealingNames
                              /\ StepOf(ij).status = <<"passed">>})
       /\ stats.ai_data_count =
              Cardinality({ij \in StepsSoFar :
                              Get(StepOf(ij).name, <<>>) \in AiNames})
       /\ stats.self_healing_success <= stats.self_healing_attempts

C9_Witness ==
    /\ pc = "render"
    /\ stats.total = 2
    /\ stats.failed = 1
    /\ stats.passed = 1
    /\ stats.self_healing_attempts = 1
    /\ stats.self_healing_success = 1

\* C10: requests that overlap are handled one pass at a time; the running
\* pass holds in its dictionaries exactly what a pass running alone would
\* hold after the files it has read, and returns the Summary of a pass
\* running alone, while the other request waits or keeps its response.
C10_PassesDoNotMix ==
    /\ \A c \in Clients : phase[c] = "active" <=> (InPass /\ cur = c)
    /\ (InPass /\ ~touched[cur])
       => LET a == Alone(dir, SubSeq(result_files, 1, pos))
          IN  /\ module_stats = a.module_stats
              /\ pc = "loop" => (stats = a.stats /\ a.outcome = "ok")
              /\ pc = "raised" => (stats = a.stats /\ a.outcome = "raised")
              /\ pc = "render" =>
                     /\ a.outcome = "ok"
                     /\ stats = Finalize(a.stats, a.module_stats)
                     /\ result_files = Glob(dir, dirState)

C10_Witness ==
    /\ pc = "render"
    /\ cur = "c1"
    /\ ~touched["c1"]
    /\ phase["c2"] = "pending"
    /\ stats.total = 2
    /\ "core" \in DOMAIN module_stats

====
